---------------------------- MODULE Spec2Model ----------------------------
(***************************************************************************)
(* Model of samples/sampleOnnxMNIST/sampleOnnxMNIST.cpp: main() and the    *)
(* SampleOnnxMNIST methods it drives (loadV3, build, constructNetwork,     *)
(* infer, processInput, verifyOutput).                                     *)
(*                                                                         *)
(* Every call into the vendor runtime is a step whose result (a null or    *)
(* non-null pointer, a boolean) is chosen nondeterministically.  A call    *)
(* through a null pointer is undefined behaviour and is modelled as a      *)
(* choice between a crash of the process and the call returning anything.  *)
(* The ASSERT macro ends the process (exit) when its condition is false.   *)
(*                                                                         *)
(* Floats are modelled exactly: a float is a fraction num/den, +Inf or     *)
(* NaN; exp() underflows to 0 and overflows to +Inf.  Rounding is not      *)
(* modelled.                                                               *)
(***************************************************************************)
EXTENDS Integers, Sequences, FiniteSets

VARIABLES
    pc,           \* position of the single thread
    args,         \* samplesCommon::Args filled by parseArgs
    mParams,      \* SampleOnnxMNIST::mParams
    mRuntime,     \* "null" or "valid"
    mEngine,      \* "null" or "valid"
    mNumber,      \* the number to classify
    timingCache,  \* build(): local timingCache, "null" or "valid"
    configFlags,  \* build(): BuilderFlags set on the local config
    context,      \* infer(): local execution context, "null" or "valid"
    nbIOTensors,  \* infer(): e of the binding loop
    boundCount,   \* infer(): i of the binding loop
    output,       \* host output buffer: the ten logits (<<>> before the copy)
    acquireRet,   \* value returned by loadV3()/build(): "none", "true", "false"
    inferRet,     \* value returned by infer(): "none", "true", "false"
    verifyRet,    \* value returned by verifyOutput(): "none", "true", "false"
    verifyIdx,    \* idx at the end of verifyOutput()
    reports,      \* calls made to the test-status logger, in order
    exitCode,     \* "none", "EXIT_SUCCESS", "EXIT_FAILURE"
    helpPrinted,  \* printHelpInfo() was called
    calls,        \* number of invocations of loadV3, build, infer
    trace,        \* pipeline steps executed so far, each with its result
    inputIdx,     \* processInput(): i of the rendering loop
    glyphIdx,     \* processInput(): index into the palette of the last pixel
    lineBreaks    \* processInput(): number of "\n" emitted by the loop

vars == <<pc, args, mParams, mRuntime, mEngine, mNumber, timingCache,
          configFlags, context, nbIOTensors, boundCount, output, acquireRet,
          inferRet, verifyRet, verifyIdx, reports, exitCode, helpPrinted,
          calls, trace, inputIdx, glyphIdx, lineBreaks>>

-----------------------------------------------------------------------------
(* Bounds of the model *)

\* largest value rand() returns in the model
MaxRand == 19
\* largest number of I/O tensors an engine reports
MaxIOTensors == 2
\* largest number of logits that do not underflow in the output of a full run
MaxHot == 1
\* the same in an input of verifyOutput taken alone
VerifyMaxHot == 2

(* Program constants *)

outputSize == 10
inputH == 28
inputW == 28
PaletteDivisor == 26
PaletteLen == 10
NumberModulus == 10
MaxPixel == 255

\* names of files given on the command line ("" : option absent)
FileNames == {"", "f"}
Ptr == {"null", "valid"}
None == "none"
\* a bool returned by a method, once it has returned
Ret(b) == IF b THEN "true" ELSE "false"

Terminal == {"exit_invalid", "exit_help", "exit_fail", "exit_pass",
             "exit_assert", "crashed"}

Step(name, ok) == [step |-> name, ok |-> ok]
Log(name, ok) == trace' = Append(trace, Step(name, ok))
Did(name) == \E k \in 1..Len(trace) : trace[k].step = name
DidOk(name) == \E k \in 1..Len(trace) : trace[k].step = name /\ trace[k].ok

-----------------------------------------------------------------------------
(* float arithmetic, as far as verifyOutput uses it *)

Fin(n, d) == [kind |-> "fin", num |-> n, den |-> d]
FInf == [kind |-> "inf", num |-> 0, den |-> 1]
FNaN == [kind |-> "nan", num |-> 0, den |-> 1]
FZero == Fin(0, 1)

\* a < b on floats: false as soon as one side is NaN
FLess(a, b) ==
    IF a.kind = "nan" \/ b.kind = "nan" THEN FALSE
    ELSE IF a.kind = "inf" THEN FALSE
    ELSE IF b.kind = "inf" THEN TRUE
    ELSE a.num * b.den < b.num * a.den

\* a == b on floats: false as soon as one side is NaN
FEq(a, b) ==
    IF a.kind = "nan" \/ b.kind = "nan" THEN FALSE
    ELSE IF a.kind = "inf" \/ b.kind = "inf" THEN a.kind = b.kind
    ELSE a.num * b.den = b.num * a.den

\* a + b on non-negative floats
FAdd(a, b) ==
    IF a.kind = "nan" \/ b.kind = "nan" THEN FNaN
    ELSE IF a.kind = "inf" \/ b.kind = "inf" THEN FInf
    ELSE Fin(a.num * b.den + b.num * a.den, a.den * b.den)

\* a / b on non-negative floats: 0/0 and Inf/Inf are NaN, x/Inf is 0
FDiv(a, b) ==
    IF a.kind = "nan" \/ b.kind = "nan" THEN FNaN
    ELSE IF a.kind = "inf" THEN (IF b.kind = "inf" THEN FNaN ELSE FInf)
    ELSE IF b.kind = "inf" THEN FZero
    ELSE IF b.num = 0 THEN (IF a.num = 0 THEN FNaN ELSE FInf)
    ELSE Fin(a.num * b.den, a.den * b.num)

\* std::max(a, b): (a < b) ? b : a
StdMax(a, b) == IF FLess(a, b) THEN b ELSE a

\* a > 0.9F
FGtNineTenths(a) == FLess(Fin(9, 10), a)

\* logits of the model: LogitLow underflows in exp(), 200 overflows
LogitLow == 0 - 200
FiniteLogits == {0, 3}
HotLogits == FiniteLogits \cup {200}

\* exp() on the logits of the model (e^3 is 20 to the unit)
Exp(x) ==
    IF x <= 0 - 104 THEN FZero
    ELSE IF x >= 89 THEN FInf
    ELSE IF x = 0 THEN Fin(1, 1)
    ELSE Fin(20, 1)

\* output buffers with at most k logits that do not underflow, these taken
\* from hot
Outputs(hot, k) ==
    UNION { { [i \in 1..outputSize |-> IF i \in S THEN f[i] ELSE LogitLow] :
                f \in [S -> hot] } :
            S \in {T \in SUBSET (1..outputSize) : Cardinality(T) <= k} }

-----------------------------------------------------------------------------
(* verifyOutput *)

\* first loop: output[i] = exp(output[i]); sum += output[i]
RECURSIVE SoftmaxSum(_, _, _)
SoftmaxSum(out, i, sum) ==
    IF i = outputSize THEN sum
    ELSE SoftmaxSum(out, i + 1, FAdd(sum, Exp(out[i + 1])))

\* the normalized scores: output[i] /= sum
Scores(out) ==
    LET sum == SoftmaxSum(out, 0, FZero)
    IN  [i \in 1..outputSize |-> FDiv(Exp(out[i]), sum)]

\* second loop: val = std::max(val, output[i]); if (val == output[i]) idx = i
RECURSIVE ArgMaxLoop(_, _, _, _)
ArgMaxLoop(scores, i, val, idx) ==
    IF i = outputSize THEN [val |-> val, idx |-> idx]
    ELSE LET v == StdMax(val, scores[i + 1])
         IN  ArgMaxLoop(scores, i + 1, v, IF FEq(v, scores[i + 1]) THEN i ELSE idx)

\* the mutant returns as soon as the index matches, whatever the confidence
verifyOutput_NoConfidence(out, number) ==
    LET r == ArgMaxLoop(Scores(out), 0, FZero, 0)
    IN  [ret |-> r.idx = number, idx |-> r.idx, val |-> r.val]

\* return idx == mNumber && val > 0.9F
verifyOutput(out, number) ==
    LET r == ArgMaxLoop(Scores(out), 0, FZero, 0)
    IN  [ret |-> r.idx = number /\ FGtNineTenths(r.val), idx |-> r.idx, val |-> r.val]

-----------------------------------------------------------------------------
(* processInput helpers *)

\* mNumber = rand() % 10
PickNumber(r) == r % NumberModulus

\* the mutant divides by 25: pixel 250..255 would index the palette at 10
PaletteIndex_Div25(p) == p \div 25

\* " .:-=+*#%@"[fileData[i] / 26]
PaletteIndex(p) == p \div PaletteDivisor

\* ((i + 1) % inputW) ? "" : "\n"
LineBreakAfter(i) == ((i + 1) % inputW) = 0

-----------------------------------------------------------------------------
(* initial state: entry of main() *)

NoArgs == [ok |-> FALSE, help |-> FALSE, loadEngine |-> "", saveEngine |-> "",
           timingCacheFile |-> ""]
NoParams == [loadEngine |-> "", saveEngine |-> "", timingCacheFile |-> "",
             inputTensorNames |-> 0, constructed |-> FALSE]

Init ==
    /\ pc = "main_parseArgs"
    /\ args = NoArgs
    /\ mParams = NoParams
    /\ mRuntime = "null"
    /\ mEngine = "null"
    /\ mNumber = 0
    /\ timingCache = "null"
    /\ configFlags = {}
    /\ context = "null"
    /\ nbIOTensors = 0
    /\ boundCount = 0
    /\ output = <<>>
    /\ acquireRet = None
    /\ inferRet = None
    /\ verifyRet = None
    /\ verifyIdx = 0
    /\ reports = <<>>
    /\ exitCode = None
    /\ helpPrinted = FALSE
    /\ calls = [loadV3 |-> 0, build |-> 0, infer |-> 0]
    /\ trace = <<>>
    /\ inputIdx = 0
    /\ glyphIdx = 0
    /\ lineBreaks = 0

objVars == <<mRuntime, mEngine, mNumber>>
buildVars == <<timingCache, configFlags>>
inferVars == <<context, nbIOTensors, boundCount, output, verifyRet, verifyIdx>>
renderVars == <<inputIdx, glyphIdx, lineBreaks>>
mainVars == <<args, mParams, reports, exitCode, helpPrinted>>
retVars == <<acquireRet, inferRet>>

-----------------------------------------------------------------------------
(* main() *)

\* bool argsOK = samplesCommon::parseArgs(args, argc, argv)
MainParseArgs ==
    /\ pc = "main_parseArgs"
    /\ \E ok \in BOOLEAN, help \in BOOLEAN,
          le \in FileNames, se \in FileNames, tc \in FileNames :
          args' = [ok |-> ok, help |-> help, loadEngine |-> le,
                   saveEngine |-> se, timingCacheFile |-> tc]
    /\ pc' = "main_checkArgs"
    /\ UNCHANGED <<mParams, reports, exitCode, helpPrinted, objVars, buildVars,
                   inferVars, renderVars, retVars, calls, trace>>

\* if (!argsOK) { printHelpInfo(); return EXIT_FAILURE; }
MainInvalidArgs ==
    /\ pc = "main_checkArgs"
    /\ ~args.ok
    /\ helpPrinted' = TRUE
    /\ exitCode' = "EXIT_FAILURE"
    /\ pc' = "exit_invalid"
    /\ UNCHANGED <<args, mParams, reports, objVars, buildVars, inferVars,
                   renderVars, retVars, calls, trace>>

\* the mutant prints the help text and carries on
MainHelp_FallThrough ==
    /\ pc = "main_checkArgs"
    /\ args.ok
    /\ args.help
    /\ helpPrinted' = TRUE
    /\ pc' = "main_reportTestStart"
    /\ UNCHANGED <<args, mParams, reports, exitCode, objVars, buildVars, inferVars,
                   renderVars, retVars, calls, trace>>

\* if (args.help) { printHelpInfo(); return EXIT_SUCCESS; }
MainHelp ==
    /\ pc = "main_checkArgs"
    /\ args.ok
    /\ args.help
    /\ helpPrinted' = TRUE
    /\ exitCode' = "EXIT_SUCCESS"
    /\ pc' = "exit_help"
    /\ UNCHANGED <<args, mParams, reports, objVars, buildVars, inferVars,
                   renderVars, retVars, calls, trace>>

\* neither return taken
MainArgsAccepted ==
    /\ pc = "main_checkArgs"
    /\ args.ok
    /\ ~args.help
    /\ pc' = "main_reportTestStart"
    /\ UNCHANGED <<mainVars, objVars, buildVars, inferVars, renderVars, retVars,
                   calls, trace>>

\* sample::gLogger.reportTestStart(sampleTest)
MainReportTestStart ==
    /\ pc = "main_reportTestStart"
    /\ reports' = Append(reports, "start")
    /\ pc' = "main_construct"
    /\ UNCHANGED <<args, mParams, exitCode, helpPrinted, objVars, buildVars,
                   inferVars, renderVars, retVars, calls, trace>>

\* initializeSampleParams(args)
initializeSampleParams(a) ==
    [loadEngine |-> a.loadEngine, saveEngine |-> a.saveEngine,
     timingCacheFile |-> a.timingCacheFile, inputTensorNames |-> 1,
     constructed |-> TRUE]

\* SampleOnnxMNIST sample(initializeSampleParams(args))
MainConstructSample ==
    /\ pc = "main_construct"
    /\ mParams' = initializeSampleParams(args)
    /\ mRuntime' = "null"
    /\ mEngine' = "null"
    /\ pc' = "main_checkEngineLoad"
    /\ UNCHANGED <<args, reports, exitCode, helpPrinted, mNumber, buildVars,
                   inferVars, renderVars, retVars, calls, trace>>

\* return !mParams.loadEngine.empty()
checkEngineLoad == mParams.loadEngine # ""

\* the mutant takes the load path whatever loadEngine is
MainSelectLoad_Always ==
    /\ pc = "main_checkEngineLoad"
    /\ calls' = [calls EXCEPT !.loadV3 = @ + 1]
    /\ pc' = "loadV3_open"
    /\ UNCHANGED <<mainVars, objVars, buildVars, inferVars, renderVars, retVars,
                   trace>>

\* if (sample.checkEngineLoad()) { ... sample.loadV3() ...
MainSelectLoad ==
    /\ pc = "main_checkEngineLoad"
    /\ checkEngineLoad
    /\ calls' = [calls EXCEPT !.loadV3 = @ + 1]
    /\ pc' = "loadV3_open"
    /\ UNCHANGED <<mainVars, objVars, buildVars, inferVars, renderVars, retVars,
                   trace>>

\* else { ... sample.build() ...
MainSelectBuild ==
    /\ pc = "main_checkEngineLoad"
    /\ ~checkEngineLoad
    /\ calls' = [calls EXCEPT !.build = @ + 1]
    /\ pc' = "build_createBuilder"
    /\ UNCHANGED <<mainVars, objVars, buildVars, inferVars, renderVars, retVars,
                   trace>>

\* if (!sample.loadV3()) / if (!sample.build()): return reportFail(sampleTest)
MainAcquireFailed ==
    /\ pc = "main_afterAcquire"
    /\ acquireRet = "false"
    /\ reports' = Append(reports, "fail")
    /\ exitCode' = "EXIT_FAILURE"
    /\ pc' = "exit_fail"
    /\ UNCHANGED <<args, mParams, helpPrinted, objVars, buildVars, inferVars,
                   renderVars, retVars, calls, trace>>

\* the engine was acquired: sample.infer()
MainCallInfer ==
    /\ pc = "main_afterAcquire"
    /\ acquireRet = "true"
    /\ calls' = [calls EXCEPT !.infer = @ + 1]
    /\ pc' = "infer_buffers"
    /\ UNCHANGED <<mainVars, objVars, buildVars, inferVars, renderVars, retVars,
                   trace>>

\* if (!sample.infer()) return reportFail(sampleTest)
MainInferFailed ==
    /\ pc = "main_afterInfer"
    /\ inferRet = "false"
    /\ reports' = Append(reports, "fail")
    /\ exitCode' = "EXIT_FAILURE"
    /\ pc' = "exit_fail"
    /\ UNCHANGED <<args, mParams, helpPrinted, objVars, buildVars, inferVars,
                   renderVars, retVars, calls, trace>>

\* return sample::gLogger.reportPass(sampleTest)
MainReportPass ==
    /\ pc = "main_afterInfer"
    /\ inferRet = "true"
    /\ reports' = Append(reports, "pass")
    /\ exitCode' = "EXIT_SUCCESS"
    /\ pc' = "exit_pass"
    /\ UNCHANGED <<args, mParams, helpPrinted, objVars, buildVars, inferVars,
                   renderVars, retVars, calls, trace>>

-----------------------------------------------------------------------------
(* loadV3() *)

\* return from loadV3()
LoadReturn(v) ==
    /\ acquireRet' = Ret(v)
    /\ pc' = "main_afterAcquire"

\* std::ifstream engineFile(enginePath, std::ios::binary); if (!engineFile) return false
LoadOpenFile ==
    /\ pc = "loadV3_open"
    /\ \E ok \in BOOLEAN :
          /\ Log("openEngineFile", ok)
          /\ IF ok THEN pc' = "loadV3_read" /\ UNCHANGED acquireRet
                   ELSE LoadReturn(FALSE)
    /\ UNCHANGED <<mainVars, objVars, buildVars, inferVars, renderVars, inferRet,
                   calls>>

\* engineFile.read(engineData.data(), fsize); if (!engineFile) return false
LoadReadFile ==
    /\ pc = "loadV3_read"
    /\ \E ok \in BOOLEAN :
          /\ Log("readEngineFile", ok)
          /\ IF ok THEN pc' = "loadV3_createRuntime" /\ UNCHANGED acquireRet
                   ELSE LoadReturn(FALSE)
    /\ UNCHANGED <<mainVars, objVars, buildVars, inferVars, renderVars, inferRet,
                   calls>>

\* mRuntime.reset(createInferRuntime(...)): the result is not tested
LoadCreateRuntime ==
    /\ pc = "loadV3_createRuntime"
    /\ \E r \in Ptr :
          /\ mRuntime' = r
          /\ Log("createInferRuntime", r = "valid")
    /\ pc' = "loadV3_deserialize"
    /\ UNCHANGED <<mainVars, mEngine, mNumber, buildVars, inferVars, renderVars,
                   retVars, calls>>

\* mEngine.reset(mRuntime->deserializeCudaEngine(...)); return true
\* the result is not tested
LoadDeserialize ==
    /\ pc = "loadV3_deserialize"
    /\ mRuntime = "valid"
    /\ \E e \in Ptr :
          /\ mEngine' = e
          /\ Log("deserializeCudaEngine", e = "valid")
    /\ LoadReturn(TRUE)
    /\ UNCHANGED <<mainVars, mRuntime, mNumber, buildVars, inferVars, renderVars,
                   inferRet, calls>>

\* mRuntime->deserializeCudaEngine on a null mRuntime: undefined behaviour
LoadDeserializeNullRuntime ==
    /\ pc = "loadV3_deserialize"
    /\ mRuntime = "null"
    /\ \/ /\ pc' = "crashed"
          /\ UNCHANGED <<mEngine, acquireRet, trace>>
       \/ /\ \E e \in Ptr :
                /\ mEngine' = e
                /\ Log("deserializeCudaEngine", e = "valid")
          /\ LoadReturn(TRUE)
    /\ UNCHANGED <<mainVars, mRuntime, mNumber, buildVars, inferVars, renderVars,
                   inferRet, calls>>

-----------------------------------------------------------------------------
(* build() and constructNetwork() *)

\* return from build(): the locals are destroyed
BuildReturn(v) ==
    /\ acquireRet' = Ret(v)
    /\ timingCache' = "null"
    /\ configFlags' = {}
    /\ pc' = "main_afterAcquire"

\* a vendor call of build() whose null result makes build() return false
BuildCall(here, name, next) ==
    /\ pc = here
    /\ \E ok \in BOOLEAN :
          /\ Log(name, ok)
          /\ IF ok THEN pc' = next /\ UNCHANGED <<acquireRet, buildVars>>
                   ELSE BuildReturn(FALSE)
    /\ UNCHANGED <<mainVars, objVars, inferVars, renderVars, inferRet, calls>>

\* createInferBuilder; if (!builder) return false
BuildCreateBuilder ==
    BuildCall("build_createBuilder", "createInferBuilder", "build_createNetwork")

\* builder->createNetworkV2(0); if (!network) return false
BuildCreateNetwork ==
    BuildCall("build_createNetwork", "createNetworkV2", "build_createConfig")

\* builder->createBuilderConfig(); if (!config) return false
BuildCreateConfig ==
    BuildCall("build_createConfig", "createBuilderConfig", "build_createParser")

\* nvonnxparser::createParser; if (!parser) return false
BuildCreateParser ==
    BuildCall("build_createParser", "createParser", "constructNetwork_parse")

\* constructNetwork: parser->parseFromFile; if (!parsed) return false,
\* and build(): if (!constructed) return false
ConstructNetworkParse ==
    BuildCall("constructNetwork_parse", "parseFromFile", "constructNetwork_configure")

\* constructNetwork: precision flags, timing cache, enableDLA; return true
ConstructNetworkConfigure ==
    /\ pc = "constructNetwork_configure"
    /\ \E flags \in SUBSET {"kFP16", "kBF16", "kINT8"} : configFlags' = flags
    /\ IF mParams.timingCacheFile # ""
          THEN \E t \in Ptr : timingCache' = t
          ELSE timingCache' = "null"
    /\ Log("configure", TRUE)
    /\ pc' = "build_makeCudaStream"
    /\ UNCHANGED <<mainVars, objVars, inferVars, renderVars, retVars, calls>>

\* samplesCommon::makeCudaStream(); if (!profileStream) return false
BuildMakeCudaStream ==
    BuildCall("build_makeCudaStream", "makeCudaStream", "build_serialize")

\* builder->buildSerializedNetwork(*network, *config); if (!plan) return false
BuildSerializedNetwork ==
    BuildCall("build_serialize", "buildSerializedNetwork", "build_updateTimingCache")

\* if (timingCache != nullptr && !mParams.timingCacheFile.empty()) updateTimingCacheFile
BuildUpdateTimingCache ==
    /\ pc = "build_updateTimingCache"
    /\ IF timingCache # "null" /\ mParams.timingCacheFile # ""
          THEN Log("updateTimingCacheFile", TRUE)
          ELSE UNCHANGED trace
    /\ pc' = "build_createRuntime"
    /\ UNCHANGED <<mainVars, objVars, buildVars, inferVars, renderVars, retVars,
                   calls>>

\* mRuntime = createInferRuntime(...); if (!mRuntime) return false
BuildCreateRuntime ==
    /\ pc = "build_createRuntime"
    /\ \E r \in Ptr :
          /\ mRuntime' = r
          /\ Log("createInferRuntime", r = "valid")
          /\ IF r = "valid" THEN pc' = "build_deserialize"
                                 /\ UNCHANGED <<acquireRet, buildVars>>
                            ELSE BuildReturn(FALSE)
    /\ UNCHANGED <<mainVars, mEngine, mNumber, inferVars, renderVars, inferRet,
                   calls>>

\* mEngine = mRuntime->deserializeCudaEngine(...); if (!mEngine) return false
BuildDeserialize ==
    /\ pc = "build_deserialize"
    /\ \E e \in Ptr :
          /\ mEngine' = e
          /\ Log("deserializeCudaEngine", e = "valid")
          /\ IF e = "valid" THEN pc' = "build_saveEngine"
                                 /\ UNCHANGED <<acquireRet, buildVars>>
                            ELSE BuildReturn(FALSE)
    /\ UNCHANGED <<mainVars, mRuntime, mNumber, inferVars, renderVars, inferRet,
                   calls>>

\* what sample::saveEngine can return for a file name: a file with an empty
\* name cannot be opened
SaveEngineResults(fileName) == IF fileName = "" THEN {FALSE} ELSE BOOLEAN

\* the mutant goes on whatever sample::saveEngine returned
BuildSaveEngine_Ignored ==
    /\ pc = "build_saveEngine"
    /\ \E ok \in SaveEngineResults(mParams.saveEngine) : Log("saveEngine", ok)
    /\ pc' = "build_assertDims"
    /\ UNCHANGED <<mainVars, objVars, buildVars, inferVars, renderVars, retVars,
                   calls>>

\* if (!sample::saveEngine(*mEngine, engineFileName, std::cerr)) return false
BuildSaveEngine ==
    /\ pc = "build_saveEngine"
    /\ \E ok \in SaveEngineResults(mParams.saveEngine) :
          /\ Log("saveEngine", ok)
          /\ IF ok THEN pc' = "build_assertDims" /\ UNCHANGED <<acquireRet, buildVars>>
                   ELSE BuildReturn(FALSE)
    /\ UNCHANGED <<mainVars, objVars, inferVars, renderVars, inferRet, calls>>

\* ASSERT on the number and rank of the network's inputs and outputs; return true
BuildAssertDims ==
    /\ pc = "build_assertDims"
    /\ \E ok \in BOOLEAN :
          /\ Log("assertDims", ok)
          /\ IF ok THEN BuildReturn(TRUE) /\ UNCHANGED exitCode
                   ELSE /\ pc' = "exit_assert"
                        /\ exitCode' = "EXIT_FAILURE"
                        /\ UNCHANGED <<acquireRet, buildVars>>
    /\ UNCHANGED <<args, mParams, reports, helpPrinted, objVars, inferVars,
                   renderVars, inferRet, calls>>

-----------------------------------------------------------------------------
(* infer(), processInput() and verifyOutput() *)

\* return from infer() before the output was copied to the host
InferReturn(v) ==
    /\ inferRet' = Ret(v)
    /\ pc' = "main_afterInfer"

\* samplesCommon::BufferManager buffers(mEngine)
InferBufferManager ==
    /\ pc = "infer_buffers"
    /\ Log("BufferManager", TRUE)
    /\ pc' = "infer_createContext"
    /\ UNCHANGED <<mainVars, objVars, buildVars, inferVars, renderVars, retVars,
                   calls>>

\* mEngine->createExecutionContext(); if (!context) return false
InferCreateContext ==
    /\ pc = "infer_createContext"
    /\ mEngine = "valid"
    /\ \E c \in Ptr :
          /\ context' = c
          /\ Log("createExecutionContext", c = "valid")
          /\ IF c = "valid" THEN pc' = "infer_nbIOTensors" /\ UNCHANGED inferRet
                            ELSE InferReturn(FALSE)
    /\ UNCHANGED <<mainVars, objVars, buildVars, nbIOTensors, boundCount, output,
                   verifyRet, verifyIdx, renderVars, acquireRet, calls>>

\* mEngine->createExecutionContext() on a null mEngine: undefined behaviour
InferCreateContextNullEngine ==
    /\ pc = "infer_createContext"
    /\ mEngine = "null"
    /\ \/ /\ pc' = "crashed"
          /\ UNCHANGED <<context, inferRet, trace>>
       \/ /\ \E c \in Ptr :
                /\ context' = c
                /\ Log("createExecutionContext", c = "valid")
                /\ IF c = "valid" THEN pc' = "infer_nbIOTensors" /\ UNCHANGED inferRet
                                  ELSE InferReturn(FALSE)
    /\ UNCHANGED <<mainVars, objVars, buildVars, nbIOTensors, boundCount, output,
                   verifyRet, verifyIdx, renderVars, acquireRet, calls>>

\* for (int32_t i = 0, e = mEngine->getNbIOTensors(); ...
InferNbIOTensors ==
    /\ pc = "infer_nbIOTensors"
    /\ \E e \in 1..MaxIOTensors : nbIOTensors' = e
    /\ boundCount' = 0
    /\ pc' = "infer_bind"
    /\ UNCHANGED <<mainVars, objVars, buildVars, context, output, verifyRet,
                   verifyIdx, renderVars, retVars, calls, trace>>

\* loop body: context->setTensorAddress(name, buffers.getDeviceBuffer(name))
InferBindTensor ==
    /\ pc = "infer_bind"
    /\ boundCount < nbIOTensors
    /\ boundCount' = boundCount + 1
    /\ Log("setTensorAddress", TRUE)
    /\ UNCHANGED <<pc, mainVars, objVars, buildVars, context, nbIOTensors, output,
                   verifyRet, verifyIdx, renderVars, retVars, calls>>

\* loop exit: i < e is false
InferBindDone ==
    /\ pc = "infer_bind"
    /\ ~(boundCount < nbIOTensors)
    /\ pc' = "infer_processInput"
    /\ UNCHANGED <<mainVars, objVars, buildVars, inferVars, renderVars, retVars,
                   calls, trace>>

\* ASSERT(mParams.inputTensorNames.size() == 1); processInput(buffers) as one
\* step: it picks mNumber, reads "<mNumber>.pgm", renders it, fills the host
\* buffer and returns true
InferProcessInput ==
    /\ pc = "infer_processInput"
    /\ IF mParams.inputTensorNames # 1
          THEN /\ pc' = "exit_assert"
               /\ exitCode' = "EXIT_FAILURE"
               /\ UNCHANGED <<mNumber, trace>>
          ELSE /\ \E r \in 0..MaxRand : mNumber' = PickNumber(r)
               /\ Log("processInput", TRUE)
               /\ pc' = "infer_copyInputToDevice"
               /\ UNCHANGED exitCode
    /\ UNCHANGED <<args, mParams, reports, helpPrinted, mRuntime, mEngine,
                   buildVars, inferVars, renderVars, retVars, calls>>

\* buffers.copyInputToDevice()
InferCopyInputToDevice ==
    /\ pc = "infer_copyInputToDevice"
    /\ Log("copyInputToDevice", TRUE)
    /\ pc' = "infer_executeV2"
    /\ UNCHANGED <<mainVars, objVars, buildVars, inferVars, renderVars, retVars,
                   calls>>

\* the mutant goes on whatever executeV2 returned
InferExecuteV2_Ignored ==
    /\ pc = "infer_executeV2"
    /\ \E status \in BOOLEAN : Log("executeV2", status)
    /\ pc' = "infer_copyOutputToHost"
    /\ UNCHANGED <<mainVars, objVars, buildVars, inferVars, renderVars, retVars,
                   calls>>

\* bool status = context->executeV2(...); if (!status) return false
InferExecuteV2 ==
    /\ pc = "infer_executeV2"
    /\ \E status \in BOOLEAN :
          /\ Log("executeV2", status)
          /\ IF status THEN pc' = "infer_copyOutputToHost" /\ UNCHANGED inferRet
                       ELSE InferReturn(FALSE)
    /\ UNCHANGED <<mainVars, objVars, buildVars, inferVars, renderVars, acquireRet,
                   calls>>

\* buffers.copyOutputToHost(): the host buffer receives the ten logits
InferCopyOutputToHost ==
    /\ pc = "infer_copyOutputToHost"
    /\ \E o \in Outputs(FiniteLogits, MaxHot) : output' = o
    /\ Log("copyOutputToHost", TRUE)
    /\ pc' = "infer_verifyOutput"
    /\ UNCHANGED <<mainVars, objVars, buildVars, context, nbIOTensors, boundCount,
                   verifyRet, verifyIdx, renderVars, retVars, calls>>

\* verifyOutput(buffers)
InferVerifyOutput ==
    /\ pc = "infer_verifyOutput"
    /\ LET r == verifyOutput(output, mNumber)
       IN  /\ verifyRet' = Ret(r.ret)
           /\ verifyIdx' = r.idx
           /\ Log("verifyOutput", r.ret)
    /\ pc' = "infer_verified"
    /\ UNCHANGED <<mainVars, objVars, buildVars, context, nbIOTensors, boundCount,
                   output, renderVars, retVars, calls>>

\* if (!verifyOutput(buffers)) return false; return true
\* the BufferManager is destroyed with the other locals of infer()
InferReturnVerified ==
    /\ pc = "infer_verified"
    /\ inferRet' = verifyRet
    /\ output' = <<>>
    /\ pc' = "main_afterInfer"
    /\ UNCHANGED <<mainVars, objVars, buildVars, context, nbIOTensors, boundCount,
                   verifyRet, verifyIdx, renderVars, acquireRet, calls, trace>>

-----------------------------------------------------------------------------
(* processInput() step by step *)

\* srand; fileData(inputH * inputW); mNumber = rand() % 10; readPGMFile
ProcessInputPick ==
    /\ pc = "processInput_pick"
    /\ \E r \in 0..MaxRand : mNumber' = PickNumber(r)
    /\ inputIdx' = 0
    /\ lineBreaks' = 0
    /\ pc' = "processInput_render"
    /\ UNCHANGED <<mainVars, mRuntime, mEngine, buildVars, inferVars, glyphIdx,
                   retVars, calls, trace>>

\* loop body: one pixel of fileData is rendered, "\n" after the last of a row
ProcessInputRenderPixel ==
    /\ pc = "processInput_render"
    /\ inputIdx < inputH * inputW
    /\ \E g \in {PaletteIndex(p) : p \in 0..MaxPixel} : glyphIdx' = g
    /\ lineBreaks' = IF LineBreakAfter(inputIdx) THEN lineBreaks + 1 ELSE lineBreaks
    /\ inputIdx' = inputIdx + 1
    /\ UNCHANGED <<pc, mainVars, objVars, buildVars, inferVars, retVars, calls,
                   trace>>

\* loop exit: i < inputH * inputW is false
ProcessInputRenderDone ==
    /\ pc = "processInput_render"
    /\ ~(inputIdx < inputH * inputW)
    /\ pc' = "processInput_fill"
    /\ UNCHANGED <<mainVars, objVars, buildVars, inferVars, renderVars, retVars,
                   calls, trace>>

\* hostDataBuffer[i] = 1.0 - float(fileData[i] / 255.0); return true
ProcessInputFill ==
    /\ pc = "processInput_fill"
    /\ Log("processInput", TRUE)
    /\ pc' = "infer_copyInputToDevice"
    /\ UNCHANGED <<mainVars, objVars, buildVars, inferVars, renderVars, retVars,
                   calls>>

-----------------------------------------------------------------------------
(* specifications *)

Next ==
    \/ MainParseArgs \/ MainInvalidArgs \/ MainHelp \/ MainArgsAccepted
    \/ MainReportTestStart \/ MainConstructSample
    \/ MainSelectLoad \/ MainSelectBuild
    \/ MainAcquireFailed \/ MainCallInfer \/ MainInferFailed \/ MainReportPass
    \/ LoadOpenFile \/ LoadReadFile \/ LoadCreateRuntime
    \/ LoadDeserialize \/ LoadDeserializeNullRuntime
    \/ BuildCreateBuilder \/ BuildCreateNetwork \/ BuildCreateConfig
    \/ BuildCreateParser \/ ConstructNetworkParse \/ ConstructNetworkConfigure
    \/ BuildMakeCudaStream \/ BuildSerializedNetwork \/ BuildUpdateTimingCache
    \/ BuildCreateRuntime \/ BuildDeserialize \/ BuildSaveEngine \/ BuildAssertDims
    \/ InferBufferManager \/ InferCreateContext \/ InferCreateContextNullEngine
    \/ InferNbIOTensors \/ InferBindTensor \/ InferBindDone
    \/ InferProcessInput \/ InferCopyInputToDevice \/ InferExecuteV2
    \/ InferCopyOutputToHost \/ InferVerifyOutput \/ InferReturnVerified

\* a whole run of main()
Spec == Init /\ [][Next]_vars

\* the state in which infer() calls processInput(), on the load path
AtProcessInput ==
    /\ args = [ok |-> TRUE, help |-> FALSE, loadEngine |-> "f", saveEngine |-> "",
               timingCacheFile |-> ""]
    /\ mParams = initializeSampleParams(args)
    /\ mRuntime = "valid"
    /\ mEngine = "valid"
    /\ timingCache = "null"
    /\ configFlags = {}
    /\ context = "valid"
    /\ nbIOTensors = 2
    /\ boundCount = 2
    /\ acquireRet = "true"
    /\ inferRet = None
    /\ verifyRet = None
    /\ verifyIdx = 0
    /\ reports = <<"start">>
    /\ exitCode = None
    /\ helpPrinted = FALSE
    /\ calls = [loadV3 |-> 1, build |-> 0, infer |-> 1]
    /\ inputIdx = 0
    /\ glyphIdx = 0
    /\ lineBreaks = 0

TraceToProcessInput ==
    << Step("openEngineFile", TRUE), Step("readEngineFile", TRUE),
       Step("createInferRuntime", TRUE), Step("deserializeCudaEngine", TRUE),
       Step("BufferManager", TRUE), Step("createExecutionContext", TRUE),
       Step("setTensorAddress", TRUE), Step("setTensorAddress", TRUE) >>

\* processInput() alone, entered from infer()
InitRender ==
    /\ AtProcessInput
    /\ pc = "processInput_pick"
    /\ mNumber = 0
    /\ output = <<>>
    /\ trace = TraceToProcessInput

NextRender ==
    \/ ProcessInputPick \/ ProcessInputRenderPixel \/ ProcessInputRenderDone
    \/ ProcessInputFill

SpecRender == InitRender /\ [][NextRender]_vars

\* verifyOutput() alone, entered from infer() with any output buffer of the
\* model and any mNumber processInput can have picked
InitVerify ==
    /\ AtProcessInput
    /\ pc = "infer_verifyOutput"
    /\ mNumber \in {PickNumber(r) : r \in 0..MaxRand}
    /\ output \in Outputs(HotLogits, VerifyMaxHot)
    /\ trace = TraceToProcessInput \o
               << Step("processInput", TRUE), Step("copyInputToDevice", TRUE),
                  Step("executeV2", TRUE), Step("copyOutputToHost", TRUE) >>

NextVerify == InferVerifyOutput

SpecVerify == InitVerify /\ [][NextVerify]_vars

-----------------------------------------------------------------------------
(* properties *)

FourExits == {"exit_invalid", "exit_help", "exit_fail", "exit_pass"}
Failed(k) == ~trace[k].ok
\* step `name` succeeded somewhere before position k of the trace
OkBefore(name, k) == \E j \in 1..(k - 1) : trace[j] = Step(name, TRUE)
Count(name) == Cardinality({k \in 1..Len(trace) : trace[k].step = name})
OnBuildPath == calls.build > 0
OnLoadPath == calls.loadV3 > 0

\* C1: a step that failed is the last step executed, the run is then back in
\* main on its way to reportFail, and once the run has ended it ended in
\* reportFail
C1_FailureAborts ==
    \A k \in 1..Len(trace) :
        Failed(k) =>
            /\ k = Len(trace)
            /\ pc \in {"main_afterAcquire", "main_afterInfer", "exit_fail"}
            /\ pc = "main_afterAcquire" => acquireRet = "false"
            /\ pc = "main_afterInfer" => inferRet = "false"

\* C2: reportPass only after the engine step and infer() returned true, with
\* verifyOutput true; a run that called reportTestStart and has ended made
\* exactly one of reportPass and reportFail
C2_PassOnlyVerified ==
    /\ pc = "exit_pass" =>
          acquireRet = "true" /\ inferRet = "true" /\ verifyRet = "true"
    /\ (pc \in Terminal /\ Len(reports) > 0) =>
          reports \in {<<"start", "pass">>, <<"start", "fail">>}
    /\ Len(reports) <= 2

\* score i is the maximum of the vector: a number no other score exceeds
IsMaximum(scores, i) ==
    /\ scores[i].kind # "nan"
    /\ \A j \in 1..outputSize : FLess(scores[j], scores[i]) \/ FEq(scores[j], scores[i])
NoNaN(scores) == \A j \in 1..outputSize : scores[j].kind # "nan"
VerifyDone == pc = "infer_verified"

\* verifyOutput is true exactly when score mNumber is the maximum and above 0.9
C3_ReturnsTrueExactly ==
    VerifyDone =>
        /\ mNumber \in 0..9
        /\ verifyRet = "true" <=>
              /\ IsMaximum(Scores(output), mNumber + 1)
              /\ FGtNineTenths(Scores(output)[mNumber + 1])

C4_PipelineOrder ==
    /\ \A k \in 1..Len(trace) :
          LET s == trace[k].step
          IN  /\ s = "configure" => trace[k - 1] = Step("parseFromFile", TRUE)
              /\ s = "buildSerializedNetwork" => OkBefore("configure", k)
              /\ (s = "deserializeCudaEngine" /\ OnBuildPath) =>
                    OkBefore("buildSerializedNetwork", k)
              /\ (s = "setTensorAddress" /\ OnBuildPath) =>
                    /\ OkBefore("deserializeCudaEngine", k)
                    /\ OkBefore("parseFromFile", k)
              /\ s = "processInput" =>
                    /\ Count("setTensorAddress") = nbIOTensors
                    /\ \A j \in 1..Len(trace) :
                          trace[j].step = "setTensorAddress" => j < k
              /\ s = "copyInputToDevice" => trace[k - 1] = Step("processInput", TRUE)
              /\ s = "executeV2" => trace[k - 1] = Step("copyInputToDevice", TRUE)
              /\ s = "copyOutputToHost" => trace[k - 1] = Step("executeV2", TRUE)
              /\ s = "verifyOutput" => trace[k - 1] = Step("copyOutputToHost", TRUE)
    /\ Count("executeV2") <= 1
    /\ Did("verifyOutput") => Count("executeV2") = 1

\* a run of the build path that went through the whole pipeline
C4_Witness ==
    /\ pc = "exit_pass"
    /\ OnBuildPath
    /\ nbIOTensors = 2

\* C5: loadV3, build and infer are each invoked at most once, no step runs
\* after a failed one, and a run that has ended ended in one of the four exits
C5_LinearFourExits ==
    /\ calls.loadV3 <= 1 /\ calls.build <= 1 /\ calls.infer <= 1
    /\ \A k \in 1..Len(trace) : Failed(k) => k = Len(trace)
    /\ pc \in Terminal => pc \in FourExits

\* C6: with loadEngine set only the load path runs (no parse, no build, no
\* save); with loadEngine empty only build() runs (no engine file is read);
\* never both
C6_OnePath ==
    /\ (mParams.constructed /\ mParams.loadEngine # "") =>
          /\ calls.build = 0
          /\ ~Did("createInferBuilder") /\ ~Did("parseFromFile")
          /\ ~Did("buildSerializedNetwork") /\ ~Did("saveEngine")
    /\ (mParams.constructed /\ mParams.loadEngine = "") =>
          /\ calls.loadV3 = 0
          /\ ~Did("openEngineFile") /\ ~Did("readEngineFile")
    /\ ~(OnLoadPath /\ OnBuildPath)
    /\ (acquireRet # None \/ calls.infer > 0) => calls.loadV3 + calls.build = 1
    /\ ~mParams.constructed => calls.loadV3 + calls.build = 0

\* a run of the load path that reached infer()
C6_Witness ==
    /\ OnLoadPath
    /\ Did("readEngineFile")
    /\ calls.infer = 1
    /\ pc = "exit_pass"

\* C7: when loadV3() or build() has returned true mEngine is non-null, and
\* infer() builds its BufferManager and its context on a non-null engine
C7_EngineNonNull ==
    /\ acquireRet = "true" => mEngine = "valid"
    /\ Did("BufferManager") => mEngine = "valid"
    /\ Did("createExecutionContext") => mEngine = "valid"

Untouched ==
    /\ reports = <<>>
    /\ calls = [loadV3 |-> 0, build |-> 0, infer |-> 0]
    /\ trace = <<>>
    /\ acquireRet = None /\ inferRet = None

\* C9: invalid arguments end in help text and EXIT_FAILURE, the help flag in
\* help text and EXIT_SUCCESS, and in both cases nothing of the test ran
C9_ArgsShortCircuit ==
    /\ (pc # "main_parseArgs" /\ ~args.ok) =>
          /\ pc \in {"main_checkArgs", "exit_invalid"}
          /\ Untouched
    /\ (pc # "main_parseArgs" /\ args.ok /\ args.help) =>
          /\ pc \in {"main_checkArgs", "exit_help"}
          /\ Untouched
    /\ pc = "exit_invalid" =>
          ~args.ok /\ helpPrinted /\ exitCode = "EXIT_FAILURE"
    /\ pc = "exit_help" =>
          args.ok /\ args.help /\ helpPrinted /\ exitCode = "EXIT_SUCCESS"
    /\ (helpPrinted \/ pc \in {"exit_invalid", "exit_help"}) => Untouched

\* the help exit was taken
C9_Witness ==
    /\ pc = "exit_help"
    /\ helpPrinted
    /\ args.loadEngine # ""

\* C10: the palette index of every pixel is in 0..9, the loop visits the 784
\* pixels with a line break after every 28th, and mNumber is in 0..9
C10_RenderInRange ==
    /\ glyphIdx \in 0..(PaletteLen - 1)
    /\ mNumber \in 0..9
    /\ inputIdx \in 0..784
    /\ lineBreaks * 28 <= inputIdx /\ inputIdx < (lineBreaks + 1) * 28
    /\ pc \in {"processInput_fill", "infer_copyInputToDevice"} =>
          inputIdx = 784 /\ lineBreaks = 28

\* the loop has ended on a pixel rendered with the last glyph, for digit 9
C10_Witness ==
    /\ pc = "processInput_fill"
    /\ glyphIdx = 9
    /\ mNumber = 9
    /\ inputIdx = 784

=============================================================================
